---------------------------- MODULE Spec2Model ----------------------------
(***************************************************************************)
(* Allocator / Load protocol of asgrids.                                   *)
(*                                                                         *)
(* Two generations of the allocator live in the repository:                *)
(*   - sens/network_allocator.py  (NetworkAllocator over `nodes`),         *)
(*   - sins.py                    (Agent, NetworkAllocator over `loads`,   *)
(*                                 NetworkLoad).                           *)
(* The Agent base class of the sens package is not among the sources; the  *)
(* scheduling and timeout primitives are those of sins.py (Agent), the     *)
(* only Agent in the sources.                                              *)
(*                                                                         *)
(* Spec      : the sens allocator driven by arbitrary inbound packets.     *)
(* SpecSins  : the sins allocator.                                         *)
(* SpecLoad  : the sins NetworkLoad.                                       *)
(* FairSpec      : Spec with a timeline that takes every step it can.      *)
(* SpecJoined    : Spec started with node 1 already joined.                *)
(* SpecTransport : AsyncCommunication (sens/async_communication.py): the   *)
(*                 thread's start-up, poll loop, sends and stop().         *)
(*                                                                         *)
(* Threads.  receive_handle is the transport's callback and runs on a      *)
(* worker thread of the transport (async_communication.py 104-106); timer  *)
(* expiry, scheduled actions and stop_network run on the simulation        *)
(* thread.  Each handler is one atomic step.                               *)
(*                                                                         *)
(* simpy.  A process interrupted before its delay elapsed never runs its   *)
(* action; interrupt() on a process that has already terminated raises     *)
(* RuntimeError.  Simulated time is kept as the remaining delay of every   *)
(* pending process.                                                        *)
(***************************************************************************)
EXTENDS Integers, Sequences, FiniteSets, TLC

\* ------------------------------------------------------------- bounds
\* Inbound packets delivered plus allocations issued in one run
MaxInputs == 3

\* ------------------------------------------------- program constants
alloc_ack_timeout == 2
stop_ack_timeout == 5
\* sins.py, NetworkAllocator.__init__
sins_alloc_ack_timeout == 5
stop_ack_tiemout == 5

\* Node addresses, allocation ids and allocation values of the runs explored
Nodes == {1, 2}
AllocIds == {1, 2}
Values == {0, 1}

\* dict.get / dict.pop default, and "no such key"
None == [aid |-> 0, value |-> 0]

\* An Allocation as far as the allocator reads it: its id and its value.
Allocations == [aid : AllocIds, value : Values]

\* allocation != self.nodes[nid]: two allocations are equal iff all fields match
AllocationNe(a, b) == a # b

\* EventId(allocation, nid), EventId(stop packet, node), EventId(stop_ack packet):
\* the kind of request, the allocation id (0 when there is none), the node
EventId(kind, aid, nid) == <<kind, aid, nid>>

PacketTypes == {"join", "allocation_ack", "leave", "stop", "stop_ack",
                "curr_allocation", "join_ack"}
Packets == [ptype : PacketTypes, src : Nodes, payload : Allocations]

VARIABLES
    nodes,              \* NetworkAllocator.nodes: nid -> allocation (None: absent)
    allocation_updated, \* TRUE when an observer callback is registered
    alloc_timeouts,     \* NetworkAllocator.alloc_timeouts: nid -> process (0: no key)
    timeouts,           \* Agent.timeouts: key -> process
    procs,              \* the delayed processes created by create_timeout / schedule
    queue,              \* zero-delay scheduled actions, in submission order
    pcStop,             \* position of stop_network: idle, polling, done
    pendingStop,        \* nodes sent `stop` by stop_network and not removed since
    running,            \* Agent.running, the main timeline loop
    server,             \* the transport's poll loop (_run_server)
    inputs,             \* inbound packets delivered and allocations issued so far
    sent,               \* packets handed to the transport by the last step
    calls,              \* allocation_updated invocations of the last step
    last,               \* the table operation of the last step: what it found and returned
    loads,              \* sins.py NetworkAllocator.loads: load_id -> allocation
    curr_allocation,    \* sins.py NetworkLoad.curr_allocation
    log,                \* sins.py NetworkLoad: what it sent, applied and tore down, in order
    comm_running,       \* AsyncCommunication.running, the flag of the poll loop
    pcServer,           \* position of the transport's thread (run / _run_server)
    listening,          \* the ROUTER socket self._server: none, bound, closed
    identity,           \* TRUE when the transport was constructed with an identity
    client,             \* AsyncCommunication._client: a socket of socks (0: not set)
    socks,              \* the DEALER sockets created by _send, in creation order
    sends,              \* the _send coroutines submitted, in submission order
    stop_called         \* AsyncCommunication.stop() has been called

\* state of the sens allocator; state only the sins agents have
sensVars == <<nodes, allocation_updated, alloc_timeouts, pcStop, pendingStop, calls, last>>
sinsVars == <<loads, curr_allocation, log>>
\* state of the transport (sens/async_communication.py)
commVars == <<comm_running, pcServer, listening, identity, client, socks, sends,
              stop_called>>

vars == <<nodes, allocation_updated, alloc_timeouts, timeouts, procs, queue,
          pcStop, pendingStop, running, server, inputs, sent, calls, last,
          loads, curr_allocation, log,
          comm_running, pcServer, listening, identity, client, socks, sends,
          stop_called>>

\* ---------------------------------------------------------- Agent (sins.py)

\* Agent.schedule / Agent.process with time > 0: a new process that runs its
\* action once `time` has elapsed
schedule(ps, kind, eid, time) ==
    Append(ps, [kind |-> kind, eid |-> eid, rem |-> time, state |-> "pending",
                acked |-> FALSE])

\* Agent.create_timeout: an event with the two expiry callbacks, succeeded
\* by a process scheduled `timeout` from now; the process is returned.
\* Nothing is looked up or stored in self.timeouts here.
create_timeout(ps, timeout, eid) ==
    [procs |-> schedule(ps, "timeout", eid, timeout), handle |-> Len(ps) + 1]

\* Process.interrupt() on process i
interrupt(ps, i) == [ps EXCEPT ![i].state = "interrupted", ![i].rem = 0]

\* Agent.cancel_timeout: pop the key; interrupt the process unless processed
cancel_timeout(tm, ps, key) ==
    IF key \in DOMAIN tm
    THEN [timeouts |-> [k \in DOMAIN tm \ {key} |-> tm[k]],
          procs |-> IF ps[tm[key]].state = "pending" THEN interrupt(ps, tm[key]) ELSE ps]
    ELSE [timeouts |-> tm, procs |-> ps]

\* Agent.stop: interrupt every process of self.timeouts that is not processed
AgentStop(tm, ps) ==
    [i \in DOMAIN ps |->
        IF (\E k \in DOMAIN tm : tm[k] = i) /\ ps[i].state = "pending"
        THEN interrupt(ps, i)[i]
        ELSE ps[i]]

\* ------------------------------ NetworkAllocator (sens/network_allocator.py)

Known == {n \in Nodes : nodes[n] # None}

\* What the last step did to the table: the operation, the node, the value
\* it found stored, the value it returned
Op(op, nid, found, ret) == [op |-> op, nid |-> nid, found |-> found, ret |-> ret]
NoOp == Op("other", 0, None, None)

\* One invocation of the observer: its two arguments, and the value stored
\* for nid at the moment it is invoked
Invocation(allocation, nid, stored) ==
    [allocation |-> allocation, nid |-> nid, stored |-> stored]

Packet(ptype, dst, payload) == [ptype |-> ptype, dst |-> dst, payload |-> payload]

\* add_node without the comparison: every re-add counts as an update
add_node_no_compare(nid, allocation) ==
    IF nodes[nid] # None
    THEN [nodes |-> [nodes EXCEPT ![nid] = allocation],
          calls |-> IF allocation_updated
                    THEN <<Invocation(allocation, nid, nodes[nid])>>
                    ELSE <<>>]
    ELSE [nodes |-> [nodes EXCEPT ![nid] = allocation], calls |-> <<>>]

\* add_node storing the new value before it notifies the observer
add_node_overwrite_first(nid, allocation) ==
    IF nodes[nid] # None
    THEN IF AllocationNe(allocation, nodes[nid])
         THEN [nodes |-> [nodes EXCEPT ![nid] = allocation],
               calls |-> IF allocation_updated
                         THEN <<Invocation(allocation, nid, allocation)>>
                         ELSE <<>>]
         ELSE [nodes |-> nodes, calls |-> <<>>]
    ELSE [nodes |-> [nodes EXCEPT ![nid] = allocation], calls |-> <<>>]

\* add_node notifying the observer of a node it inserts
add_node_notify_on_insert(nid, allocation) ==
    IF nodes[nid] # None
    THEN IF AllocationNe(allocation, nodes[nid])
         THEN [nodes |-> [nodes EXCEPT ![nid] = allocation],
               calls |-> IF allocation_updated
                         THEN <<Invocation(allocation, nid, nodes[nid])>>
                         ELSE <<>>]
         ELSE [nodes |-> nodes, calls |-> <<>>]
    ELSE [nodes |-> [nodes EXCEPT ![nid] = allocation],
          calls |-> IF allocation_updated
                    THEN <<Invocation(allocation, nid, None)>>
                    ELSE <<>>]

\* add_node: the new table and the observer invocations made
add_node(nid, allocation) ==
    IF nodes[nid] # None
    THEN IF AllocationNe(allocation, nodes[nid])
         THEN [nodes |-> [nodes EXCEPT ![nid] = allocation],
               calls |-> IF allocation_updated
                         THEN <<Invocation(allocation, nid, nodes[nid])>>
                         ELSE <<>>]
         ELSE [nodes |-> nodes, calls |-> <<>>]
    ELSE [nodes |-> [nodes EXCEPT ![nid] = allocation], calls |-> <<>>]

\* remove_node popping without a default: KeyError for an absent node
remove_node_no_default(nid) ==
    [nodes |-> [nodes EXCEPT ![nid] = None], ret |-> nodes[nid],
     raised |-> nodes[nid] = None]

\* remove_node: self.nodes.pop(nid, None) -- the new table, the value
\* returned, and whether the call raised
remove_node(nid) ==
    [nodes |-> [nodes EXCEPT ![nid] = None], ret |-> nodes[nid], raised |-> FALSE]

\* remove_timeout(eid) of the stop_ack branch
remove_timeout(tm, ps, eid) == cancel_timeout(tm, ps, eid)

\* An allocation_ack for (aid, src) handled while a timer registered for the
\* same allocation and node is still pending is recorded on that timer.
MarkAcked(ps, aid, src) ==
    [i \in DOMAIN ps |->
        IF ps[i].state = "pending" /\ ps[i].eid = EventId("allocation", aid, src)
        THEN [ps[i] EXCEPT !.acked = TRUE]
        ELSE ps[i]]

\* receive_handle, by branch.  Runs on the transport's worker thread; an
\* exception leaves the callback and ends the poll loop that awaits it.
\* the join branch acknowledging only a node it did not know yet
HandleJoin_ack_first_only(p) ==
    LET r == add_node(p.src, p.payload) IN
    /\ nodes' = r.nodes
    /\ calls' = r.calls
    /\ queue' = IF nodes[p.src] = None
                THEN Append(queue, [act |-> "send_join_ack", arg |-> p.src])
                ELSE queue
    /\ last' = Op("join", p.src, nodes[p.src], None)
    /\ UNCHANGED <<alloc_timeouts, timeouts, procs, pcStop, pendingStop, server>>

HandleJoin(p) ==
    LET r == add_node(p.src, p.payload) IN
    /\ nodes' = r.nodes
    /\ calls' = r.calls
    /\ queue' = Append(queue, [act |-> "send_join_ack", arg |-> p.src])
    /\ last' = Op("join", p.src, nodes[p.src], None)
    /\ UNCHANGED <<alloc_timeouts, timeouts, procs, pcStop, pendingStop, server>>

HandleAllocationAck(p) ==
    LET r == add_node(p.src, p.payload)
        h == alloc_timeouts[p.src]
        marked == MarkAcked(procs, p.payload.aid, p.src)
    IN
    /\ nodes' = r.nodes
    /\ calls' = r.calls
    /\ IF h # 0 /\ procs[h].state = "pending"
       THEN procs' = interrupt(marked, h) /\ server' = server
       ELSE procs' = marked /\ server' = "crashed"   \* KeyError / RuntimeError
    /\ last' = Op("allocation_ack", p.src, nodes[p.src], None)
    /\ UNCHANGED <<alloc_timeouts, timeouts, queue, pcStop, pendingStop>>

\* the leave branch removing the node at once, on the transport's thread
HandleLeave_removes_at_once(p) ==
    /\ nodes' = remove_node(p.src).nodes
    /\ calls' = <<>>
    /\ last' = NoOp
    /\ UNCHANGED <<queue, alloc_timeouts, timeouts, procs, pcStop, pendingStop, server>>

HandleLeave(p) ==
    /\ queue' = Append(queue, [act |-> "remove_node", arg |-> p.src])
    /\ calls' = <<>>
    /\ last' = NoOp
    /\ UNCHANGED <<nodes, alloc_timeouts, timeouts, procs, pcStop, pendingStop, server>>

HandleStop(p) ==
    /\ queue' = Append(queue, [act |-> "stop_network", arg |-> 0])
    /\ calls' = <<>>
    /\ last' = NoOp
    /\ UNCHANGED <<nodes, alloc_timeouts, timeouts, procs, pcStop, pendingStop, server>>

HandleStopAck(p) ==
    LET c == remove_timeout(timeouts, procs, EventId("stop_ack", 0, p.src))
        r == remove_node(p.src)
    IN
    /\ timeouts' = c.timeouts
    /\ procs' = c.procs
    /\ nodes' = r.nodes
    /\ pendingStop' = pendingStop \ {p.src}
    /\ server' = IF r.raised THEN "crashed" ELSE server
    /\ calls' = <<>>
    /\ last' = Op("remove_node", p.src, nodes[p.src], r.ret)
    /\ UNCHANGED <<alloc_timeouts, queue, pcStop>>

HandleCurrAllocation(p) ==
    LET r == add_node(p.src, p.payload) IN
    /\ nodes' = r.nodes
    /\ calls' = r.calls
    /\ last' = Op("curr_allocation", p.src, nodes[p.src], None)
    /\ UNCHANGED <<alloc_timeouts, timeouts, procs, queue, pcStop, pendingStop, server>>

HandleOther(p) ==
    /\ calls' = <<>>
    /\ last' = NoOp
    /\ UNCHANGED <<nodes, alloc_timeouts, timeouts, procs, queue, pcStop, pendingStop, server>>

receive_handle(p) ==
    /\ server = "running"
    /\ inputs < MaxInputs
    /\ inputs' = inputs + 1
    /\ CASE p.ptype = "join" -> HandleJoin(p)
         [] p.ptype = "allocation_ack" -> HandleAllocationAck(p)
         [] p.ptype = "leave" -> HandleLeave(p)
         [] p.ptype = "stop" -> HandleStop(p)
         [] p.ptype = "stop_ack" -> HandleStopAck(p)
         [] p.ptype = "curr_allocation" -> HandleCurrAllocation(p)
         [] OTHER -> HandleOther(p)
    /\ sent' = {}
    /\ UNCHANGED sinsVars
    /\ UNCHANGED commVars
    /\ UNCHANGED <<allocation_updated, running>>

\* ----------------------------------------------- the simulation thread

\* The simulation thread is free to run a timeline action: it is not inside
\* stop_network's busy loop and the timeline is being advanced.
SimFree == pcStop # "polling" /\ running = "alive"

\* send_allocation(nid, allocation)
send_allocation(nid, allocation) ==
    LET t == create_timeout(procs, alloc_ack_timeout,
                            EventId("allocation", allocation.aid, nid))
    IN
    /\ SimFree
    /\ inputs < MaxInputs
    /\ inputs' = inputs + 1
    /\ procs' = t.procs
    /\ alloc_timeouts' = [alloc_timeouts EXCEPT ![nid] = t.handle]
    /\ sent' = {Packet("allocation", nid, allocation)}
    /\ calls' = <<>>
    /\ last' = NoOp
    /\ UNCHANGED sinsVars
    /\ UNCHANGED commVars
    /\ UNCHANGED <<nodes, allocation_updated, timeouts, queue, pcStop, pendingStop,
                   running, server>>

\* send_join_ack(dst), run from the timeline
send_join_ack ==
    /\ SimFree
    /\ queue # <<>> /\ Head(queue).act = "send_join_ack"
    /\ sent' = {Packet("join_ack", Head(queue).arg, None)}
    /\ queue' = Tail(queue)
    /\ calls' = <<>>
    /\ last' = NoOp
    /\ UNCHANGED sinsVars
    /\ UNCHANGED commVars
    /\ UNCHANGED <<nodes, allocation_updated, alloc_timeouts, timeouts, procs, pcStop,
                   pendingStop, running, server, inputs>>

\* remove_node(nid) scheduled by a leave, run from the timeline; an exception
\* in a timeline action ends env.run
RunRemoveNode ==
    /\ SimFree
    /\ queue # <<>> /\ Head(queue).act = "remove_node"
    /\ LET nid == Head(queue).arg
           r == remove_node(nid)
       IN /\ nodes' = r.nodes
          /\ pendingStop' = pendingStop \ {nid}
          /\ running' = IF r.raised THEN "crashed" ELSE running
          /\ last' = Op("remove_node", nid, nodes[nid], r.ret)
    /\ queue' = Tail(queue)
    /\ calls' = <<>>
    /\ sent' = {}
    /\ UNCHANGED sinsVars
    /\ UNCHANGED commVars
    /\ UNCHANGED <<allocation_updated, alloc_timeouts, timeouts, procs, pcStop,
                   server, inputs>>

\* stop timers taking the place of the node's live allocation timers
RECURSIVE StopTimers_shared_slot(_, _)
StopTimers_shared_slot(ps, todo) ==
    IF todo = {} THEN ps
    ELSE LET n == CHOOSE m \in todo : \A k \in todo : m <= k
             freed == [i \in DOMAIN ps |->
                          IF ps[i].state = "pending" /\ ps[i].eid[3] = n
                          THEN interrupt(ps, i)[i] ELSE ps[i]]
         IN StopTimers_shared_slot(
                create_timeout(freed, stop_ack_timeout, EventId("stop", 0, n)).procs,
                todo \ {n})

\* The stop timers of stop_network's for loop, one per node of `todo`
RECURSIVE StopTimers(_, _)
StopTimers(ps, todo) ==
    IF todo = {} THEN ps
    ELSE LET n == CHOOSE m \in todo : \A k \in todo : m <= k
         IN StopTimers(create_timeout(ps, stop_ack_timeout, EventId("stop", 0, n)).procs,
                       todo \ {n})

\* stop_network, the for loop: a stop packet and a stop timer per known node;
\* the handle create_timeout returns is dropped
stop_network ==
    /\ SimFree
    /\ queue # <<>> /\ Head(queue).act = "stop_network"
    /\ procs' = StopTimers(procs, Known)
    /\ sent' = {Packet("stop", n, None) : n \in Known}
    /\ pendingStop' = Known
    /\ pcStop' = "polling"
    /\ queue' = Tail(queue)
    /\ calls' = <<>>
    /\ last' = NoOp
    /\ UNCHANGED sinsVars
    /\ UNCHANGED commVars
    /\ UNCHANGED <<nodes, allocation_updated, alloc_timeouts, timeouts, running, server,
                   inputs>>

\* the busy loop leaving one node early
LoopExit_off_by_one == Cardinality(Known) <= 1

\* stop_network, the busy loop: it leaves the loop once it reads an empty
\* table
LoopExit == Known = {}

\* NetworkAllocator.stop: Agent.stop only
stop(tm, ps) == AgentStop(tm, ps)

\* stop_network, leaving the loop and calling self.stop()
PollNodes ==
    /\ pcStop = "polling"
    /\ LoopExit
    /\ procs' = stop(timeouts, procs)
    /\ pcStop' = "done"
    /\ calls' = <<>>
    /\ sent' = {}
    /\ last' = NoOp
    /\ UNCHANGED sinsVars
    /\ UNCHANGED commVars
    /\ UNCHANGED <<nodes, allocation_updated, alloc_timeouts, timeouts, queue,
                   pendingStop, running, server, inputs>>

\* an expiry that sends the unanswered envelope again under a new timer
Expire_resend(i) ==
    /\ SimFree
    /\ procs[i].kind = "timeout" /\ procs[i].state = "pending" /\ procs[i].rem = 0
    /\ procs' = create_timeout([procs EXCEPT ![i].state = "fired"],
                               alloc_ack_timeout, procs[i].eid).procs
    /\ sent' = {Packet(procs[i].eid[1], procs[i].eid[3], None)}
    /\ calls' = <<>>
    /\ last' = NoOp
    /\ UNCHANGED sinsVars
    /\ UNCHANGED commVars
    /\ UNCHANGED <<nodes, allocation_updated, alloc_timeouts, timeouts, running, queue,
                   pcStop, pendingStop, server, inputs>>

\* an expiry of a stop timer that gives the silent node up
Expire_removes_node(i) ==
    /\ SimFree
    /\ procs[i].kind = "timeout" /\ procs[i].state = "pending" /\ procs[i].rem = 0
    /\ procs' = [procs EXCEPT ![i].state = "fired"]
    /\ nodes' = IF procs[i].eid[1] = "stop"
                THEN remove_node(procs[i].eid[3]).nodes ELSE nodes
    /\ calls' = <<>>
    /\ sent' = {}
    /\ last' = NoOp
    /\ UNCHANGED sinsVars
    /\ UNCHANGED commVars
    /\ UNCHANGED <<allocation_updated, alloc_timeouts, timeouts, running, queue,
                   pcStop, pendingStop, server, inputs>>

\* A timeout process whose delay has elapsed: event.succeed runs the two
\* callbacks -- the report, then cancel_timeout(event_id)
Expire(i) ==
    /\ SimFree
    /\ procs[i].kind = "timeout" /\ procs[i].state = "pending" /\ procs[i].rem = 0
    /\ LET fired == [procs EXCEPT ![i].state = "fired"]
           c == cancel_timeout(timeouts, fired, procs[i].eid)
       IN /\ procs' = c.procs
          /\ timeouts' = c.timeouts
          \* the process found under its own key has terminated and is not
          \* yet processed: interrupt() raises RuntimeError
          /\ running' = IF procs[i].eid \in DOMAIN timeouts /\ timeouts[procs[i].eid] = i
                        THEN "crashed" ELSE running
    /\ calls' = <<>>
    /\ sent' = {}
    /\ last' = NoOp
    /\ UNCHANGED sinsVars
    /\ UNCHANGED commVars
    /\ UNCHANGED <<nodes, allocation_updated, alloc_timeouts, queue, pcStop,
                   pendingStop, server, inputs>>

\* time advancing while zero-delay actions are still waiting at the present
\* instant
Tick_ignores_due ==
    /\ SimFree
    /\ \E i \in DOMAIN procs : procs[i].state = "pending"
    /\ \A i \in DOMAIN procs : procs[i].state = "pending" => procs[i].rem > 0
    /\ procs' = [i \in DOMAIN procs |->
                    IF procs[i].state = "pending"
                    THEN [procs[i] EXCEPT !.rem = @ - 1]
                    ELSE procs[i]]
    /\ calls' = <<>>
    /\ sent' = {}
    /\ last' = NoOp
    /\ UNCHANGED sinsVars
    /\ UNCHANGED commVars
    /\ UNCHANGED <<nodes, allocation_updated, alloc_timeouts, timeouts, queue, pcStop,
                   pendingStop, running, server, inputs>>

\* Simulated time advances by one unit once nothing is due at the present
\* instant
Tick ==
    /\ SimFree
    /\ queue = <<>>
    /\ \E i \in DOMAIN procs : procs[i].state = "pending"
    /\ \A i \in DOMAIN procs : procs[i].state = "pending" => procs[i].rem > 0
    /\ procs' = [i \in DOMAIN procs |->
                    IF procs[i].state = "pending"
                    THEN [procs[i] EXCEPT !.rem = @ - 1]
                    ELSE procs[i]]
    /\ calls' = <<>>
    /\ sent' = {}
    /\ last' = NoOp
    /\ UNCHANGED sinsVars
    /\ UNCHANGED commVars
    /\ UNCHANGED <<nodes, allocation_updated, alloc_timeouts, timeouts, queue, pcStop,
                   pendingStop, running, server, inputs>>

\* AsyncCommunication.__init__ followed by start(): the thread is started
\* and has not yet run
CommInit(id) ==
    /\ comm_running = FALSE
    /\ pcServer = "started"
    /\ listening = "none"
    /\ identity = id
    /\ client = 0
    /\ socks = <<>>
    /\ sends = <<>>
    /\ stop_called = FALSE

\* The agents with `table` as the allocator's node table
AgentInitWith(table) ==
    /\ nodes = table
    /\ allocation_updated \in BOOLEAN
    /\ alloc_timeouts = [n \in Nodes |-> 0]
    /\ timeouts = <<>>
    /\ procs = <<>>
    /\ queue = <<>>
    /\ pcStop = "idle"
    /\ pendingStop = {}
    /\ running = "alive"
    /\ server = "running"
    /\ inputs = 0
    /\ sent = {}
    /\ calls = <<>>
    /\ last = NoOp
    /\ loads = [n \in Nodes |-> None]
    /\ curr_allocation = 0
    /\ log = <<>>

\* The agents after construction
AgentInit == AgentInitWith([n \in Nodes |-> None])

Init == AgentInit /\ CommInit(FALSE)

Next ==
    \/ \E p \in Packets : receive_handle(p)
    \/ \E n \in Nodes, a \in Allocations : send_allocation(n, a)
    \/ send_join_ack
    \/ RunRemoveNode
    \/ stop_network
    \/ PollNodes
    \/ \E i \in DOMAIN procs : Expire(i)
    \/ Tick

Spec == Init /\ [][Next]_vars

\* The timeline and the transport keep running while they have work: every
\* step of the simulation thread that stays enabled is eventually taken.
Internal ==
    \/ send_join_ack
    \/ RunRemoveNode
    \/ stop_network
    \/ PollNodes
    \/ \E i \in DOMAIN procs : Expire(i)
    \/ Tick

FairSpec == Spec /\ WF_vars(Internal)

\* The allocator once node 1 has joined and its join_ack has been sent
InitJoined ==
    /\ AgentInitWith([n \in Nodes |-> IF n = 1 THEN [aid |-> 1, value |-> 0] ELSE None])
    /\ CommInit(FALSE)

SpecJoined == InitJoined /\ [][Next]_vars

\* ------------------------------------------- NetworkAllocator (sins.py)

KnownLoads == {n \in Nodes : loads[n] # None}

\* hashlib.md5(text).hexdigest(): a digest for bytes, TypeError for a str
\* that was not encoded.  The digest of a text is a key of its own, equal to
\* no allocation id.
md5(text, encoded) ==
    [raised |-> ~encoded,
     hexdigest |-> <<IF text[1] = "allocation" THEN "md5 allocation" ELSE "md5 stop",
                     text[2], text[3]>>]

\* a key of self.timeouts that is a plain allocation id
IdKey(aid) == <<"allocation_id", aid, 0>>

\* d[key] = value on a dict kept as a function
DictSet(d, key, value) == [k \in DOMAIN d \cup {key} |-> IF k = key THEN value ELSE d[k]]

add_load(ls, load_id, allocation) == [ls EXCEPT ![load_id] = allocation]

remove_load(ls, load_id) == [loads |-> [ls EXCEPT ![load_id] = None], ret |-> ls[load_id]]

\* NetworkAllocator.receive_handle of sins.py, on the transport's thread
sins_receive_handle(p) ==
    /\ server = "running"
    /\ inputs < MaxInputs
    /\ inputs' = inputs + 1
    /\ CASE p.ptype = "join" ->
              /\ loads' = add_load(loads, p.src, p.payload)
              /\ queue' = Append(queue, [act |-> "send_join_ack", arg |-> p.src])
              /\ UNCHANGED <<timeouts, procs, server>>
         [] p.ptype = "allocation_ack" ->
              LET h == md5(<<"allocation", p.payload.aid, p.src>>, FALSE)
                  c == cancel_timeout(timeouts, procs, h.hexdigest)
              IN /\ loads' = add_load(loads, p.src, p.payload)
                 /\ IF h.raised
                    THEN server' = "crashed" /\ UNCHANGED <<timeouts, procs>>
                    ELSE timeouts' = c.timeouts /\ procs' = c.procs /\ server' = server
                 /\ queue' = queue
         [] p.ptype = "leave" ->
              /\ loads' = remove_load(loads, p.src).loads
              /\ UNCHANGED <<timeouts, procs, queue, server>>
         [] p.ptype = "stop" ->
              /\ queue' = Append(queue, [act |-> "stop_network", arg |-> 0])
              /\ UNCHANGED <<loads, timeouts, procs, server>>
         [] p.ptype = "stop_ack" ->
              LET h == md5(<<"stop", 0, p.src>>, FALSE)
                  c == cancel_timeout(timeouts, procs, h.hexdigest)
              IN /\ IF h.raised
                    THEN server' = "crashed" /\ UNCHANGED <<timeouts, procs>>
                    ELSE timeouts' = c.timeouts /\ procs' = c.procs /\ server' = server
                 /\ UNCHANGED <<loads, queue>>
         [] OTHER -> UNCHANGED <<loads, timeouts, procs, queue, server>>
    /\ sent' = {}
    /\ UNCHANGED commVars
    /\ UNCHANGED <<sensVars, running, curr_allocation, log>>

\* NetworkAllocator.send_allocation of sins.py: the timer is created for the
\* digest and stored under the allocation id; the packet is scheduled
sins_send_allocation(agent_id, allocation) ==
    LET h == md5(<<"allocation", allocation.aid, agent_id>>, TRUE)
        t == create_timeout(procs, sins_alloc_ack_timeout, h.hexdigest)
    IN
    /\ running = "alive"
    /\ inputs < MaxInputs
    /\ inputs' = inputs + 1
    /\ procs' = t.procs
    /\ timeouts' = DictSet(timeouts, IdKey(allocation.aid), t.handle)
    /\ queue' = Append(queue, [act |-> "comm.send",
                               arg |-> Packet("allocation", agent_id, allocation)])
    /\ sent' = {}
    /\ UNCHANGED commVars
    /\ UNCHANGED <<sensVars, running, server, loads, curr_allocation, log>>

\* a scheduled comm.send(request, remote), run from the timeline; the
\* transport sends while its thread lives
sins_comm_send ==
    /\ running = "alive"
    /\ queue # <<>> /\ Head(queue).act = "comm.send"
    /\ sent' = IF server = "running" THEN {Head(queue).arg} ELSE {}
    /\ queue' = Tail(queue)
    /\ UNCHANGED commVars
    /\ UNCHANGED <<sensVars, timeouts, procs, running, server, inputs, sinsVars>>

\* NetworkAllocator.send_join_ack of sins.py
sins_send_join_ack ==
    /\ running = "alive"
    /\ queue # <<>> /\ Head(queue).act = "send_join_ack"
    /\ sent' = IF server = "running"
               THEN {Packet("join_ack", Head(queue).arg, None)} ELSE {}
    /\ queue' = Tail(queue)
    /\ UNCHANGED commVars
    /\ UNCHANGED <<sensVars, timeouts, procs, running, server, inputs, sinsVars>>

\* stop_network's for loop over `todo` when the digest can be computed: a
\* scheduled stop packet and a stop timer stored under its digest, per load
RECURSIVE StopLoads(_, _)
StopLoads(st, todo) ==
    IF todo = {} THEN st
    ELSE LET l == CHOOSE m \in todo : \A k \in todo : m <= k
             h == md5(<<"stop", 0, l>>, FALSE)
             t == create_timeout(st.procs, stop_ack_tiemout, h.hexdigest)
         IN StopLoads([procs |-> t.procs,
                       timeouts |-> DictSet(st.timeouts, h.hexdigest, t.handle),
                       queue |-> Append(st.queue, [act |-> "comm.send",
                                                   arg |-> Packet("stop", l, None)])],
                      todo \ {l})

\* NetworkAllocator.stop_network of sins.py, run from the timeline.  With a
\* load registered the first iteration schedules its stop packet and then
\* raises in md5; the exception ends env.run.  Without loads self.stop is
\* scheduled stop_ack_tiemout from now.
sins_stop_network ==
    /\ running = "alive"
    /\ queue # <<>> /\ Head(queue).act = "stop_network"
    /\ IF KnownLoads # {} /\ md5(<<"stop", 0, 0>>, FALSE).raised
       THEN \E l \in KnownLoads :
              /\ queue' = Append(Tail(queue), [act |-> "comm.send",
                                               arg |-> Packet("stop", l, None)])
              /\ running' = "crashed"
              /\ UNCHANGED <<timeouts, procs>>
       ELSE LET st == StopLoads([procs |-> procs, timeouts |-> timeouts,
                                 queue |-> Tail(queue)], KnownLoads)
            IN /\ procs' = schedule(st.procs, "stop", <<"stop", 0, 0>>, stop_ack_tiemout)
               /\ timeouts' = st.timeouts
               /\ queue' = st.queue
               /\ running' = running
    /\ sent' = {}
    /\ UNCHANGED commVars
    /\ UNCHANGED <<sensVars, server, inputs, sinsVars>>

\* NetworkAllocator.stop of sins.py, the scheduled process of stop_network:
\* Agent.stop, comm.stop, comm.join; then the callback interrupts
\* self.running and env.run returns
sins_stop(i) ==
    /\ running = "alive"
    /\ procs[i].kind = "stop" /\ procs[i].state = "pending" /\ procs[i].rem = 0
    /\ procs' = AgentStop(timeouts, [procs EXCEPT ![i].state = "fired"])
    /\ server' = IF server = "running" THEN "stopped" ELSE server
    /\ running' = "interrupted"
    /\ sent' = {}
    /\ UNCHANGED commVars
    /\ UNCHANGED <<sensVars, timeouts, queue, inputs, sinsVars>>

NextSins ==
    \/ \E p \in Packets : sins_receive_handle(p)
    \/ \E n \in Nodes, a \in Allocations : sins_send_allocation(n, a)
    \/ sins_comm_send
    \/ sins_send_join_ack
    \/ sins_stop_network
    \/ \E i \in DOMAIN procs : sins_stop(i)
    \/ \E i \in DOMAIN procs : Expire(i)
    \/ Tick

SpecSins == Init /\ [][NextSins]_vars

\* ------------------------------------------------- NetworkLoad (sins.py)

\* The allocator's address, as the load sees it
Allocator == 0

LoadPacketTypes == {"join_ack", "allocation", "stop"}
LoadPackets == [ptype : LoadPacketTypes, src : {Allocator}, payload : Allocations]

\* An entry of the load's history
Event(what, allocation) == [what |-> what, allocation |-> allocation]

\* comm.send on the load's transport: the coroutine is run by the event
\* loop, which lives until the transport's thread ends
LoadCanSend == server \in {"running", "blocked"}

\* NetworkLoad.stop, called from receive_handle: comm.stop() clears the
\* flag; comm.join() then waits, on the transport's worker thread, for the
\* poll loop, which is itself awaiting this callback
NetworkLoad_stop == [server |-> "blocked", log |-> Append(log, Event("teardown", None))]

\* NetworkLoad.receive_handle, on the transport's thread
NetworkLoad_receive_handle(p) ==
    /\ server = "running"
    /\ inputs < MaxInputs
    /\ inputs' = inputs + 1
    /\ CASE p.ptype = "join_ack" -> UNCHANGED <<queue, procs, server, log>>
         [] p.ptype = "allocation" ->
              /\ queue' = Append(queue, [act |-> "send_ack",
                                         arg |-> Packet("allocation_ack", p.src, p.payload)])
              /\ procs' = schedule(procs, "allocation_handle",
                                   <<"allocation", p.payload.aid, p.payload.value>>, 1)
              /\ UNCHANGED <<server, log>>
         [] p.ptype = "stop" ->
              /\ server' = NetworkLoad_stop.server
              /\ log' = NetworkLoad_stop.log
              /\ UNCHANGED <<queue, procs>>
         [] OTHER -> UNCHANGED <<queue, procs, server, log>>
    /\ sent' = {}
    /\ UNCHANGED commVars
    /\ UNCHANGED <<sensVars, timeouts, running, loads, curr_allocation>>

\* NetworkLoad.send_ack, run from the timeline at the time it was scheduled
send_ack ==
    /\ running = "alive"
    /\ queue # <<>> /\ Head(queue).act = "send_ack"
    /\ sent' = IF LoadCanSend THEN {Head(queue).arg} ELSE {}
    /\ log' = IF LoadCanSend
              THEN Append(log, Event("allocation_ack", Head(queue).arg.payload))
              ELSE log
    /\ queue' = Tail(queue)
    /\ UNCHANGED commVars
    /\ UNCHANGED <<sensVars, timeouts, procs, running, server, inputs, loads,
                   curr_allocation>>

\* NetworkLoad.allocation_handle, run one time unit after the allocation was
\* received.  The function holds a yield: calling it builds a generator
\* that nobody iterates, so none of its statements runs.
allocation_handle(i) ==
    /\ running = "alive"
    /\ procs[i].kind = "allocation_handle" /\ procs[i].state = "pending"
    /\ procs[i].rem = 0
    /\ procs' = [procs EXCEPT ![i].state = "fired"]
    /\ sent' = {}
    /\ UNCHANGED commVars
    /\ UNCHANGED <<sensVars, timeouts, queue, running, server, inputs, sinsVars>>

\* NetworkLoad.send_join(dst)
send_join ==
    /\ running = "alive"
    /\ inputs < MaxInputs
    /\ inputs' = inputs + 1
    /\ sent' = IF LoadCanSend
               THEN {Packet("join", Allocator, curr_allocation)}
               ELSE {}
    /\ log' = IF LoadCanSend THEN Append(log, Event("join", None)) ELSE log
    /\ UNCHANGED commVars
    /\ UNCHANGED <<sensVars, timeouts, procs, queue, running, server, loads,
                   curr_allocation>>

NextLoad ==
    \/ \E p \in LoadPackets : NetworkLoad_receive_handle(p)
    \/ send_ack
    \/ \E i \in DOMAIN procs : allocation_handle(i)
    \/ send_join
    \/ Tick

SpecLoad == Init /\ [][NextLoad]_vars

\* ------------------------- AsyncCommunication (sens/async_communication.py)

\* state of the agents that the transport leaves alone
agentVars == <<sensVars, sinsVars, timeouts, procs, queue, running, server, sent>>

\* The event loop runs other coroutines while _run_server is suspended at
\* an await (the poll, the recv, the callback in the executor)
LoopFree == pcServer \in {"poll", "callback"}

\* run() has left run_until_complete: the loop is closed
LoopClosed == pcServer \in {"ended", "crashed"}

\* A DEALER socket as _send leaves it at the await: connected, registered
\* with the poller, its message handed to send_multipart
Socket(owner) ==
    [state |-> "open", registered |-> TRUE, identity |-> FALSE, sent |-> TRUE,
     owner |-> owner, closed_by |-> 0]

\* _send of coroutine s up to the await: the identity is set on the socket
\* self._client names at that moment, then self._client is rebound to a
\* new socket, which is connected, registered and sent on
SendOpen(s) ==
    IF identity /\ client = 0
    THEN [ok |-> FALSE, socks |-> socks, client |-> client]     \* AttributeError
    ELSE IF identity /\ socks[client].state = "closed"
    THEN [ok |-> FALSE, socks |-> socks, client |-> client]     \* ZMQError, re-raised
    ELSE LET set == IF identity THEN [socks EXCEPT ![client].identity = TRUE]
                    ELSE socks
         IN [ok |-> TRUE, socks |-> Append(set, Socket(s)), client |-> Len(socks) + 1]

\* _send of coroutine s after the await: unregister and close the socket
\* self._client names at that moment; Poller.unregister raises KeyError for
\* a socket that is not registered
SendClose(sk, c, s) ==
    IF sk[c].registered
    THEN [ok |-> TRUE,
          socks |-> [sk EXCEPT ![c].registered = FALSE, ![c].state = "closed",
                               ![c].closed_by = s]]
    ELSE [ok |-> FALSE, socks |-> sk]

\* AsyncCommunication.send: the coroutine is submitted to the loop; a
\* closed loop refuses it
comm_send ==
    /\ inputs < MaxInputs
    /\ inputs' = inputs + 1
    /\ sends' = IF LoopClosed THEN sends
                ELSE Append(sends, [pc |-> "start", sock |-> 0])
    /\ UNCHANGED <<agentVars, comm_running, pcServer, listening, identity, client,
                   socks, stop_called>>

\* _send run by the loop from its start: it fails before it opens a socket,
\* or it is suspended at the await of send_multipart, or the await
\* completes at once and it goes on to close
SendStart(s) ==
    /\ LoopFree
    /\ sends[s].pc = "start"
    /\ LET o == SendOpen(s)
           c == SendClose(o.socks, o.client, s)
       IN IF ~o.ok
          THEN /\ sends' = [sends EXCEPT ![s].pc = "failed"]
               /\ UNCHANGED <<socks, client>>
          ELSE /\ client' = o.client
               /\ \/ /\ sends' = [sends EXCEPT ![s] = [pc |-> "awaiting", sock |-> o.client]]
                     /\ socks' = o.socks
                  \/ /\ sends' = [sends EXCEPT ![s] = [pc |-> "done", sock |-> o.client]]
                     /\ socks' = c.socks
    /\ UNCHANGED <<agentVars, inputs, comm_running, pcServer, listening, identity,
                   stop_called>>

\* _send resumed after the await
SendResume(s) ==
    /\ LoopFree
    /\ sends[s].pc = "awaiting"
    /\ LET c == SendClose(socks, client, s)
       IN /\ sends' = [sends EXCEPT ![s].pc = IF c.ok THEN "done" ELSE "failed"]
          /\ socks' = c.socks
    /\ UNCHANGED <<agentVars, inputs, comm_running, pcServer, listening, identity,
                   client, stop_called>>

\* AsyncCommunication.stop, called from another thread
comm_stop ==
    /\ comm_running' = FALSE
    /\ stop_called' = TRUE
    /\ UNCHANGED <<agentVars, inputs, pcServer, listening, identity, client, socks,
                   sends>>

\* AsyncCommunication.run, its first statement
run ==
    /\ pcServer = "started"
    /\ comm_running' = TRUE
    /\ pcServer' = "setup"
    /\ UNCHANGED <<agentVars, inputs, listening, identity, client, socks, sends,
                   stop_called>>

\* _run_server before the loop: the ROUTER socket is bound and registered
ServerSetup ==
    /\ pcServer = "setup"
    /\ listening' = "bound"
    /\ pcServer' = "test"
    /\ UNCHANGED <<agentVars, inputs, comm_running, identity, client, socks, sends,
                   stop_called>>

\* while self.running
ServerTest ==
    /\ pcServer = "test"
    /\ pcServer' = IF comm_running THEN "poll" ELSE "closing"
    /\ UNCHANGED <<agentVars, inputs, comm_running, listening, identity, client,
                   socks, sends, stop_called>>

\* the poll returns after self._timeout with nothing to read
ServerPollTimeout ==
    /\ pcServer = "poll"
    /\ pcServer' = "test"
    /\ UNCHANGED <<agentVars, inputs, comm_running, listening, identity, client,
                   socks, sends, stop_called>>

\* a message is read: unpacked and handed to the callback in the executor,
\* or the unpacking raises and the exception is raised again
ServerRecv(wellformed) ==
    /\ pcServer = "poll"
    /\ inputs < MaxInputs
    /\ inputs' = inputs + 1
    /\ pcServer' = IF wellformed THEN "callback" ELSE "crashed"
    /\ UNCHANGED <<agentVars, comm_running, listening, identity, client, socks,
                   sends, stop_called>>

\* the callback returns, or raises into the await
ServerCallback(raised) ==
    /\ pcServer = "callback"
    /\ pcServer' = IF raised THEN "crashed" ELSE "test"
    /\ UNCHANGED <<agentVars, inputs, comm_running, listening, identity, client,
                   socks, sends, stop_called>>

\* after the loop: the ROUTER socket is unregistered and closed, and run()
\* closes the event loop
ServerClose ==
    /\ pcServer = "closing"
    /\ listening' = "closed"
    /\ pcServer' = "ended"
    /\ UNCHANGED <<agentVars, inputs, comm_running, identity, client, socks, sends,
                   stop_called>>

NextTransport ==
    \/ comm_send
    \/ \E s \in DOMAIN sends : SendStart(s)
    \/ \E s \in DOMAIN sends : SendResume(s)
    \/ comm_stop
    \/ run
    \/ ServerSetup
    \/ ServerTest
    \/ ServerPollTimeout
    \/ \E w \in BOOLEAN : ServerRecv(w)
    \/ \E r \in BOOLEAN : ServerCallback(r)
    \/ ServerClose

InitTransport == AgentInit /\ \E id \in BOOLEAN : CommInit(id)

SpecTransport == InitTransport /\ [][NextTransport]_vars

\* ------------------------------------------------------------------ claims

IsAllocTimer(i, nid) == procs[i].eid[1] = "allocation" /\ procs[i].eid[3] = nid

\* C1: an allocation_ack for allocation a from node n handled before the
\* deadline of the timer send_allocation(n, a) registered keeps that timer's
\* expiry report from ever running.
C1_AckPreventsExpiry ==
    \A i \in DOMAIN procs : procs[i].acked => procs[i].state # "fired"

\* C2: at most one live timer per EventId.
C2_OneLiveTimerPerEventId ==
    \A i, j \in DOMAIN procs :
        (i # j /\ procs[i].state = "pending" /\ procs[j].state = "pending")
            => procs[i].eid # procs[j].eid

\* C3: with two allocations of different ids outstanding for one node, an
\* allocation_ack carrying one of them interrupts exactly the timer keyed by
\* (that allocation id, src) and leaves the other timer pending.
C3_AckCancelsExactlyMatching ==
    [][\A p \in Packets :
          (/\ p.ptype = "allocation_ack"
           /\ receive_handle(p)
           /\ \E i, j \in DOMAIN procs :
                 /\ procs[i].state = "pending" /\ procs[j].state = "pending"
                 /\ IsAllocTimer(i, p.src) /\ IsAllocTimer(j, p.src)
                 /\ procs[i].eid[2] # procs[j].eid[2]
                 /\ p.payload.aid \in {procs[i].eid[2], procs[j].eid[2]})
          => \A i \in DOMAIN procs :
                (procs[i].state = "pending" /\ IsAllocTimer(i, p.src))
                    => IF procs[i].eid[2] = p.payload.aid
                       THEN procs'[i].state = "interrupted"
                       ELSE procs'[i].state = "pending"]_vars

\* C4: a timer that has fired is no longer referenced by the timeout table.
C4_ExpiredTimerLeavesTable ==
    \A i \in DOMAIN procs :
        (procs[i].kind = "timeout" /\ procs[i].state = "fired")
            => \A k \in DOMAIN timeouts : timeouts[k] # i

\* C5: a join from a node whose stored allocation equals the one carried
\* leaves the table unchanged and invokes no observer.
C5_RejoinSameIsNoop ==
    [][\A n \in Known :
          receive_handle([ptype |-> "join", src |-> n, payload |-> nodes[n]])
              => (nodes' = nodes /\ calls' = <<>>)]_vars

C5_Witness ==
    /\ last.op = "join" /\ last.found # None
    /\ nodes[last.nid] = last.found
    /\ calls = <<>>

\* C6: a join of a known node carrying an allocation different from the
\* stored one invokes the registered observer exactly once, with (new
\* allocation, node id), while the old value is still stored, and the table
\* then holds the new allocation.
C6_RejoinChangedNotifiesOnce ==
    [][\A n \in Known : \A a \in Allocations \ {nodes[n]} :
          (/\ allocation_updated
           /\ receive_handle([ptype |-> "join", src |-> n, payload |-> a]))
              => (/\ calls' = <<Invocation(a, n, nodes[n])>>
                  /\ nodes'[n] = a)]_vars

C6_Witness ==
    /\ last.op = "join" /\ last.found # None
    /\ Len(calls) = 1
    /\ calls[1].stored = last.found /\ calls[1].allocation # last.found
    /\ nodes[last.nid] = calls[1].allocation

\* C7: removing a node that is not in the table returns None, raises
\* nothing and leaves the table unchanged.
C7_RemoveAbsent ==
    [][/\ (/\ queue # <<>> /\ Head(queue).act = "remove_node"
           /\ nodes[Head(queue).arg] = None
           /\ RunRemoveNode)
            => (nodes' = nodes /\ last'.ret = None /\ running' = running)
       /\ \A n \in Nodes \ Known : \A a \in Allocations :
            (/\ inputs' = inputs + 1 /\ last'.op = "remove_node"
             /\ receive_handle([ptype |-> "stop_ack", src |-> n, payload |-> a]))
                => (nodes' = nodes /\ last'.ret = None /\ server' = server)]_vars

C7_Witness ==
    /\ last.op = "remove_node" /\ last.found = None /\ last.ret = None
    /\ running = "alive" /\ server = "running"

\* C8: once stop_network has sent stop to N >= 1 nodes, every one of them
\* has replied stop_ack and been removed, stop_network has returned and
\* nothing is left to run, the Scheduler and the Transport are both stopped.
C8_StopNetworkStopsBoth ==
    (/\ pcStop = "done"
     /\ \E i \in DOMAIN procs : procs[i].eid[1] = "stop"
     /\ queue = <<>>
     /\ \A i \in DOMAIN procs : procs[i].state # "pending")
        => (running = "interrupted" /\ server = "stopped")

C10_StopAckBeforeTeardown ==
    \A i \in DOMAIN log :
        log[i].what = "teardown" => \E j \in 1..(i - 1) : log[j].what = "stop_ack"

\* C11: the transport's inbound callback only posts onto the timeline: a
\* step of receive_handle, which runs on the transport's worker thread,
\* changes neither the node table nor the timeout tables nor a timer.
C11_CallbackOnlyPosts ==
    [][\A p \in Packets :
          receive_handle(p)
              => (/\ nodes' = nodes
                  /\ alloc_timeouts' = alloc_timeouts
                  /\ timeouts' = timeouts
                  /\ \A i \in DOMAIN procs : procs'[i].state = procs[i].state)]_vars

\* C12: inbound bytes that cannot be decoded are dropped and the poll loop
\* goes on to its next iteration.
C12_MalformedIsDropped ==
    [][ServerRecv(FALSE) => pcServer' = "test"]_vars

\* C13: once stop() has been called, the poll loop does not begin another
\* iteration.
C13_StopEndsLoop ==
    [][(stop_called /\ pcServer = "test") => pcServer' # "poll"]_vars

\* C14: once stop() has run, no timer is left live: every timer that was
\* pending at the call has been interrupted.
C14_StopInterruptsEveryLiveTimer ==
    running = "interrupted"
        => \A j \in DOMAIN procs :
              procs[j].kind = "timeout" => procs[j].state # "pending"

\* C15: once stop() has been called and has returned, the Scheduler is
\* stopped: its main timeline loop has been interrupted.
C15_StopStopsScheduler ==
    pcStop = "done" => running = "interrupted"

C17_IdentityOnEveryConnection ==
    identity
        => \A s \in DOMAIN sends :
              sends[s].pc # "start"
                  => /\ sends[s].sock # 0
                     /\ socks[sends[s].sock].owner = s
                     /\ socks[sends[s].sock].identity
                     /\ socks[sends[s].sock].sent

\* C18: a connection is closed only by the send that opened it, and a send
\* that has completed has left its connection closed and unregistered.
C18_SendClosesOwnConnection ==
    /\ \A k \in DOMAIN socks : socks[k].closed_by \in {0, socks[k].owner}
    /\ \A s \in DOMAIN sends :
          (sends[s].pc \in {"done", "failed"} /\ sends[s].sock # 0)
              => /\ socks[sends[s].sock].state = "closed"
                 /\ ~socks[sends[s].sock].registered

\* C19: a stop_ack handled from a registered load src leaves src out of the
\* record and no stop timer for src pending, and the handler returns.
C19_StopAckCancelsAndRemoves ==
    [][\A n \in KnownLoads :
          (/\ inputs' = inputs + 1
           /\ sins_receive_handle([ptype |-> "stop_ack", src |-> n,
                                   payload |-> [aid |-> 1, value |-> 0]]))
              => /\ loads'[n] = None
                 /\ server' = server
                 /\ \A i \in DOMAIN procs' :
                       procs'[i].eid = md5(<<"stop", 0, n>>, FALSE).hexdigest
                           => procs'[i].state # "pending"]_vars

\* C20: once a load has begun its teardown on a stop and nothing is left to
\* run on its timeline, its main loop has been interrupted and its transport
\* thread has ended.
C20_LoadStopStopsBoth ==
    (/\ \E i \in DOMAIN log : log[i].what = "teardown"
     /\ queue = <<>>
     /\ \A i \in DOMAIN procs : procs[i].state # "pending")
        => (running = "interrupted" /\ server = "stopped")

\* C21: for every allocation, the load has handed at least as many
\* allocation_acks for it to its transport as it has run allocation_handle
\* for it: each ack goes out before the allocation it answers is applied.
C21_AckBeforeApply ==
    \A a \in Allocations :
        Cardinality({i \in DOMAIN procs :
                        /\ procs[i].kind = "allocation_handle"
                        /\ procs[i].state = "fired"
                        /\ procs[i].eid = <<"allocation", a.aid, a.value>>})
            <= Cardinality({j \in DOMAIN log : log[j] = Event("allocation_ack", a)})

C21_Witness ==
    \E i \in DOMAIN procs :
        /\ procs[i].kind = "allocation_handle" /\ procs[i].state = "fired"
        /\ \E j \in DOMAIN log :
              /\ log[j].what = "allocation_ack"
              /\ procs[i].eid = <<"allocation", log[j].allocation.aid,
                                  log[j].allocation.value>>

\* C22: when the allocation_handle scheduled for a received allocation has
\* run, the load's current value is the value of that allocation.
C22_ApplySetsCurrentValue ==
    [][\A i \in DOMAIN procs :
          allocation_handle(i) => curr_allocation' = procs[i].eid[3]]_vars

\* zero-delay send_join_ack actions waiting on the timeline
JoinAcksQueued(q) == {k \in DOMAIN q : q[k].act = "send_join_ack"}

\* stop_network is spinning in its busy loop over a table that is not empty
TimelineHeld == pcStop = "polling" /\ ~LoopExit

C24_ExpiryOnlyReports ==
    [][/\ \A i \in DOMAIN procs :
             (/\ procs[i].kind = "timeout"
              /\ procs[i].state = "pending"
              /\ procs'[i].state = "fired")
                 => /\ sent' = {}
                    /\ queue' = queue
                    /\ Len(procs') = Len(procs)
                    /\ alloc_timeouts' = alloc_timeouts
       /\ (\E p \in sent' : p.ptype = "allocation")
             => /\ Cardinality(sent') = 1
                /\ inputs' = inputs + 1
                /\ Len(procs') = Len(procs) + 1]_vars

\* an allocation timer and a stop timer have both fired
C24_Witness ==
    /\ \E i \in DOMAIN procs :
          /\ procs[i].kind = "timeout" /\ procs[i].state = "fired"
          /\ procs[i].eid[1] = "allocation"
    /\ \E j \in DOMAIN procs :
          /\ procs[j].kind = "timeout" /\ procs[j].state = "fired"
          /\ procs[j].eid[1] = "stop"

C26_LeaveThenJoinEndsAbsent ==
    [][\A n \in Nodes :
          /\ (/\ inputs' = inputs + 1
              /\ receive_handle([ptype |-> "leave", src |-> n,
                                 payload |-> [aid |-> 1, value |-> 0]]))
                => /\ nodes' = nodes
                   /\ queue' = Append(queue, [act |-> "remove_node", arg |-> n])
          /\ (/\ inputs' = inputs
              /\ queue # <<>>
              /\ Head(queue) = [act |-> "remove_node", arg |-> n]
              /\ queue' = Tail(queue)
              /\ nodes[n] # None
              /\ \E k \in DOMAIN queue : queue[k] = [act |-> "send_join_ack", arg |-> n])
                => /\ nodes'[n] = None
                   /\ \E k \in DOMAIN queue' :
                         queue'[k] = [act |-> "send_join_ack", arg |-> n]]_vars

\* the removal has run over a node that re-joined in between: the node is
\* absent and its join_ack is the next action of the timeline
C26_Witness ==
    /\ last.op = "remove_node"
    /\ last.found # None
    /\ nodes[last.nid] = None
    /\ queue # <<>>
    /\ Head(queue) = [act |-> "send_join_ack", arg |-> last.nid]

\* C27: an allocation_ack or a curr_allocation from a node that is not in
\* the table puts the node there with the carried payload, and the
\* observer is not invoked.
C27_AckFromStrangerInserts ==
    [][\A n \in Nodes \ Known :
          (/\ inputs' = inputs + 1
           /\ last'.nid = n
           /\ last'.op \in {"allocation_ack", "curr_allocation"})
              => \A a \in Allocations :
                    (\/ receive_handle([ptype |-> "allocation_ack", src |-> n,
                                        payload |-> a])
                     \/ receive_handle([ptype |-> "curr_allocation", src |-> n,
                                        payload |-> a]))
                        => (nodes'[n] = a /\ calls' = <<>>)]_vars

\* with an observer registered, an allocation_ack has just inserted a node
\* that was not in the table
C27_Witness ==
    /\ last.op = "allocation_ack"
    /\ last.found = None
    /\ nodes[last.nid] # None
    /\ allocation_updated
    /\ calls = <<>>

=============================================================================
